---------------------------- MODULE Spec2Model ----------------------------
(***************************************************************************)
(* The multi-agent demo of Day1/Task2.py (and the retry options it shares  *)
(* with Day1/Task1.py): main() builds four agent compositions and runs     *)
(* them one after the other through run_agent_and_print.                   *)
(*                                                                         *)
(* The scripts only configure agents; the state machine below runs the     *)
(* configured compositions: a sequential composite runs its sub-agents in  *)
(* list order, a parallel composite runs them interleaved, a loop          *)
(* composite repeats its body up to max_iterations times and leaves early  *)
(* only when an event of its body carries the escalate action, and an      *)
(* agent with an output_key stores its final response text under that key  *)
(* of the session state.  The language model is the environment: every     *)
(* model call may fail with an HTTP status code, answer with a final      *)
(* response (a text, or no content at all), or (for an agent that has      *)
(* tools) answer with a call of one of them.  The built-in google_search   *)
(* tool runs inside the model call and has no step of its own.             *)
(***************************************************************************)
EXTENDS Integers, Sequences, FiniteSets, TLC

(* ------------------------------ bounds -------------------------------- *)

\* Number of distinct non-"APPROVED" texts a model call may answer with.
NumTexts == 1

\* Largest max_iterations build_loop_refinement_pipeline is called with.
MaxK == 2

\* Most function calls one agent makes during one of its runs.
MaxToolCalls == 2

(* --------------------------- configuration ---------------------------- *)

http_status_codes_with_400 == {400, 429, 500, 503, 504}

\* retry_config (Task2.py 64-69, Task1.py 89-94)
attempts == 5
exp_base == 7
initial_delay == 1
http_status_codes == {429, 500, 503, 504}

\* retry_config sets neither max_delay nor jitter: the retry options keep
\* their defaults, a cap of 60 seconds on every delay and a random jitter of
\* up to 1 second added to it.
max_delay == 60
jitter == 1

\* Status codes the service may answer a failed model call with.
StatusCodes == {400, 429, 500, 503, 504}

\* main() calls build_loop_refinement_pipeline(max_iterations=2).
MainMaxIterations == 2

NoKey == ""
NoText == ""
APPROVED == "APPROVED"
Texts == {APPROVED} \cup {"text" \o ToString(i) : i \in 1..NumTexts}

Keys == {"research_findings", "final_summary",
         "blog_outline", "blog_draft", "final_blog",
         "tech_research", "health_research", "finance_research",
         "executive_summary", "current_story", "critique"}

LlmAgents == {"ResearchCoordinator", "ResearchAgent", "SummarizerAgent",
              "OutlineAgent", "WriterAgent", "EditorAgent",
              "TechResearcher", "HealthResearcher", "FinanceResearcher",
              "AggregatorAgent",
              "InitialWriterAgent", "CriticAgent", "RefinerAgent"}

Composites == {"BlogPipeline", "ParallelResearchTeam", "ResearchSystem",
               "StoryRefinementLoop", "StoryPipeline"}

\* The class each agent is constructed from.
kind(n) ==
    CASE n \in LlmAgents -> "llm"
      [] n \in {"BlogPipeline", "ResearchSystem", "StoryPipeline"} -> "sequential"
      [] n = "ParallelResearchTeam" -> "parallel"
      [] n = "StoryRefinementLoop" -> "loop"

\* sub_agents=[...] of each composite, in list order.
sub_agents(c) ==
    CASE c = "BlogPipeline" -> <<"OutlineAgent", "WriterAgent", "EditorAgent">>
      [] c = "ParallelResearchTeam" ->
            <<"TechResearcher", "HealthResearcher", "FinanceResearcher">>
      [] c = "ResearchSystem" -> <<"ParallelResearchTeam", "AggregatorAgent">>
      [] c = "StoryRefinementLoop" -> <<"CriticAgent", "RefinerAgent">>
      [] c = "StoryPipeline" -> <<"InitialWriterAgent", "StoryRefinementLoop">>

output_key_shared(a) ==
    CASE a = "ResearchAgent" -> "research_findings"
      [] a = "SummarizerAgent" -> "final_summary"
      [] a = "OutlineAgent" -> "blog_outline"
      [] a = "WriterAgent" -> "blog_draft"
      [] a = "EditorAgent" -> "final_blog"
      [] a = "TechResearcher" -> "tech_research"
      [] a = "HealthResearcher" -> "tech_research"
      [] a = "FinanceResearcher" -> "finance_research"
      [] a = "AggregatorAgent" -> "executive_summary"
      [] a = "InitialWriterAgent" -> "current_story"
      [] a = "CriticAgent" -> "critique"
      [] a = "RefinerAgent" -> "current_story"
      [] OTHER -> NoKey

\* output_key= of each agent; ResearchCoordinator has none.
output_key(a) ==
    CASE a = "ResearchAgent" -> "research_findings"
      [] a = "SummarizerAgent" -> "final_summary"
      [] a = "OutlineAgent" -> "blog_outline"
      [] a = "WriterAgent" -> "blog_draft"
      [] a = "EditorAgent" -> "final_blog"
      [] a = "TechResearcher" -> "tech_research"
      [] a = "HealthResearcher" -> "health_research"
      [] a = "FinanceResearcher" -> "finance_research"
      [] a = "AggregatorAgent" -> "executive_summary"
      [] a = "InitialWriterAgent" -> "current_story"
      [] a = "CriticAgent" -> "critique"
      [] a = "RefinerAgent" -> "current_story"
      [] OTHER -> NoKey

\* The {key} placeholders of each agent's instruction template.
placeholders(a) ==
    CASE a = "SummarizerAgent" -> {"research_findings"}
      [] a = "WriterAgent" -> {"blog_outline"}
      [] a = "EditorAgent" -> {"blog_draft"}
      [] a = "AggregatorAgent" ->
            {"tech_research", "health_research", "finance_research"}
      [] a = "CriticAgent" -> {"current_story"}
      [] a = "RefinerAgent" -> {"current_story", "critique"}
      [] OTHER -> {}

\* tools=[AgentTool(...)]: the agents another agent may call as tools.
agent_tools(a) ==
    IF a = "ResearchCoordinator" THEN {"ResearchAgent", "SummarizerAgent"} ELSE {}

\* tools=[FunctionTool(...)]: the Python functions an agent may call.
function_tools(a) ==
    IF a = "RefinerAgent" THEN {"exit_loop"} ELSE {}

\* Whether a call of function tool f sets the escalate action of its event,
\* the one thing that makes a loop return early.  exit_loop() takes no tool
\* context and only returns the dictionary {"status": "approved", "message":
\* ...}: the event of its call carries no escalate action.
tool_escalates(f) == FALSE

\* The agent main() hands to run_agent_and_print in its e-th example.
Root(e) ==
    CASE e = 1 -> "ResearchCoordinator"
      [] e = 2 -> "BlogPipeline"
      [] e = 3 -> "ResearchSystem"
      [] e = 4 -> "StoryPipeline"

NumExamples == 4




(* ------------------------------- state -------------------------------- *)

VARIABLES
    ex,             \* main(): the example being run (NumExamples + 1: all done)
    mainStatus,     \* "running", "finished", or "error" (an exception left main)
    running,        \* run_agent_and_print: runner.run_debug is in progress
    completed,      \* the examples whose run_debug has returned a response
    state,          \* the session state of the current run: key -> text
    st,             \* each LLM agent: idle, running, waiting, joining, done,
                    \* failed or cancelled
    attempt,        \* each agent's model call in flight: the attempt number
    delay,          \* ... the delay waited before that attempt (0: none)
    retriedOther,   \* history: a status code outside 429, 500, 503, 504 was retried
    toolCalls,      \* the tool calls each agent made in its current run
    max_iterations, \* the argument build_loop_refinement_pipeline is called with
    times_looped,   \* the loop's count of completed iterations
    loopStatus,     \* "idle", "RUNNING", "APPROVED" or "EXHAUSTED"
    should_exit,    \* the loop saw an escalate action in the running sub-agent
    failure,        \* the hard failure that ended the run, or NoFailure
    writers,        \* history: key -> the agents that wrote it in this run
    runs,           \* history: agent -> how often it was invoked in this run
    exitAt,         \* history: iteration of the first exit_loop call (0: none)
    runsAtExit,     \* history: runs at the first exit_loop call
    storyAtExit,    \* history: current_story at the first exit_loop call
    critiqueAtExit  \* history: critique at the first exit_loop call

vars == <<ex, mainStatus, running, completed, state, st, attempt, delay,
          retriedOther, toolCalls, max_iterations, times_looped, loopStatus,
          should_exit, failure, writers, runs, exitAt, runsAtExit,
          storyAtExit, critiqueAtExit>>

\* error is "APIError" (a failed model call, with its status code and attempt
\* number) or "KeyError" (a placeholder of the instruction is not in the state).
NoFailure == [agent |-> "", error |-> "", code |-> 0, attempt |-> 0]

EmptyState == [k \in Keys |-> NoText]
NoRuns == [a \in LlmAgents |-> 0]

AllIdle == [a \in LlmAgents |-> "idle"]
NoWriters == [k \in Keys |-> {}]

\* A fresh InMemoryRunner: an empty session, no agent started.
FreshRun ==
    /\ state = EmptyState
    /\ st = AllIdle
    /\ attempt = NoRuns
    /\ delay = NoRuns
    /\ toolCalls = NoRuns
    /\ times_looped = 0
    /\ loopStatus = "idle"
    /\ should_exit = FALSE
    /\ writers = NoWriters
    /\ runs = NoRuns
    /\ exitAt = 0
    /\ runsAtExit = NoRuns
    /\ storyAtExit = NoText
    /\ critiqueAtExit = NoText

\* main() before its first example; its fourth example is built with
\* max_iterations=2.
Init ==
    /\ ex = 1
    /\ mainStatus = "running"
    /\ running = FALSE
    /\ completed = {}
    /\ max_iterations = MainMaxIterations
    /\ failure = NoFailure
    /\ retriedOther = FALSE
    /\ FreshRun

\* build_loop_refinement_pipeline(max_iterations) called with any argument
\* from 1 to MaxK, and its pipeline handed to run_agent_and_print.
InitBuilder ==
    /\ ex = NumExamples
    /\ mainStatus = "running"
    /\ running = FALSE
    /\ completed = {}
    /\ max_iterations \in 1..MaxK
    /\ failure = NoFailure
    /\ retriedOther = FALSE
    /\ FreshRun

(* ------------------------- composition engine ------------------------- *)

IsSub(p, n) == \E i \in DOMAIN sub_agents(p) : sub_agents(p)[i] = n

\* The agent that runs n: the composite listing it, or the agent whose tool
\* it is; "" for the agent handed to the runner.
Parent(n) ==
    IF \E p \in Composites : IsSub(p, n)
    THEN CHOOSE p \in Composites : IsSub(p, n)
    ELSE IF \E p \in LlmAgents : n \in agent_tools(p)
         THEN CHOOSE p \in LlmAgents : n \in agent_tools(p)
         ELSE ""

IndexIn(p, n) == CHOOSE i \in DOMAIN sub_agents(p) : sub_agents(p)[i] = n

Last(p) == sub_agents(p)[Len(sub_agents(p))]

\* n has run to completion.
RECURSIVE Finished(_)
Finished(n) ==
    CASE kind(n) = "llm" -> st[n] = "done"
      [] kind(n) = "loop" -> loopStatus \in {"APPROVED", "EXHAUSTED"}
      [] OTHER -> \A i \in DOMAIN sub_agents(n) : Finished(sub_agents(n)[i])

\* The agent that runs n has reached the point where it runs n.  An agent
\* whose tool n is may call n in any model turn, and several of its tools in
\* the same turn: the calls of one turn ("waiting") all start before the
\* first of them returns ("joining").
RECURSIVE Activated(_)
Activated(n) ==
    LET p == Parent(n) IN
    IF p = "" THEN running /\ n = Root(ex)
    ELSE CASE kind(p) = "sequential" ->
                /\ Activated(p)
                /\ \A j \in 1..(IndexIn(p, n) - 1) : Finished(sub_agents(p)[j])
           [] kind(p) = "parallel" -> Activated(p)
           [] kind(p) = "loop" ->
                /\ Activated(p)
                /\ loopStatus \in {"idle", "RUNNING"}
                /\ \A j \in 1..(IndexIn(p, n) - 1) : st[sub_agents(p)[j]] = "done"
           [] kind(p) = "llm" ->
                /\ st[p] \in {"running", "waiting"}
                /\ toolCalls[p] < MaxToolCalls

\* The statuses from which an agent is started: an agent tool may be called
\* again after it returned.
Startable(a) ==
    IF Parent(a) \in LlmAgents THEN st[a] \in {"idle", "done"} ELSE st[a] = "idle"

(* ---------------------------- retry policy ---------------------------- *)

\* The delay before the n-th retry of a call, with j the random jitter drawn
\* for it: exponential in n, and never above the cap.
NextDelay(n, j) ==
    LET d == initial_delay * exp_base ^ (n - 1) + j
    IN  IF d < max_delay THEN d ELSE max_delay

\* A failed attempt with status code c is retried.
Retried(a, c) == c \in http_status_codes /\ attempt[a] < attempts


(* ------------------------------ actions ------------------------------- *)

on_run_failure_swallowed == "swallow"

\* run_agent_and_print awaits run_debug without an exception handler, and
\* main awaits run_agent_and_print without one: an exception leaves both.
on_run_failure == "propagate"

\* An exception raised while agent a runs.  It leaves run_debug, hence
\* run_agent_and_print and main, and is printed by the handler around
\* asyncio.run(main()).  The agents still running are cancelled.
HardFailure(a, err, c) ==
    /\ failure' = [agent |-> a, error |-> err, code |-> c, attempt |-> attempt[a]]
    /\ st' = [b \in LlmAgents |->
                IF b = a THEN "failed"
                ELSE IF st[b] \in {"running", "waiting", "joining"} THEN "cancelled"
                ELSE st[b]]
    /\ running' = FALSE
    /\ UNCHANGED completed
    /\ IF on_run_failure = "propagate"
       THEN /\ mainStatus' = "error"
            /\ ex' = ex
       ELSE /\ mainStatus' = IF ex = NumExamples THEN "finished" ELSE "running"
            /\ ex' = ex + 1

loop_max_iterations_plus_one(k) == k + 1

\* LoopAgent(..., max_iterations=max_iterations): the loop's bound is the
\* builder's argument.
loop_max_iterations(k) == k

\* run_agent_and_print: a new InMemoryRunner (a fresh session) and the start
\* of run_debug.
RunStart ==
    /\ mainStatus = "running"
    /\ ~running
    /\ ex <= NumExamples
    /\ running' = TRUE
    /\ state' = EmptyState
    /\ st' = AllIdle
    /\ attempt' = NoRuns
    /\ delay' = NoRuns
    /\ toolCalls' = NoRuns
    /\ times_looped' = 0
    /\ loopStatus' = "idle"
    /\ should_exit' = FALSE
    /\ writers' = NoWriters
    /\ runs' = NoRuns
    /\ exitAt' = 0
    /\ runsAtExit' = NoRuns
    /\ storyAtExit' = NoText
    /\ critiqueAtExit' = NoText
    /\ UNCHANGED <<ex, mainStatus, completed, failure, retriedOther,
                   max_iterations>>

\* Agent a is invoked: its instruction template is filled from the state
\* (a missing key raises KeyError) and its first model call is issued.
AgentStart(a) ==
    /\ mainStatus = "running"
    /\ running
    /\ Startable(a)
    /\ Activated(a)
    /\ LET p == Parent(a) IN
       IF \E k \in placeholders(a) : state[k] = NoText
       THEN /\ HardFailure(a, "KeyError", 0)
            /\ UNCHANGED <<state, attempt, delay, retriedOther, toolCalls,
                           max_iterations, times_looped, loopStatus,
                           should_exit, writers, runs, exitAt,
                           runsAtExit, storyAtExit, critiqueAtExit>>
       ELSE /\ st' = [b \in LlmAgents |->
                        IF b = a THEN "running"
                        ELSE IF b = p THEN "waiting" ELSE st[b]]
            /\ attempt' = [b \in LlmAgents |->
                        IF b = a THEN 1 ELSE IF b = p THEN 0 ELSE attempt[b]]
            /\ delay' = [b \in LlmAgents |->
                        IF b \in {a, p} THEN 0 ELSE delay[b]]
            /\ toolCalls' = [b \in LlmAgents |->
                        IF b = a THEN 0
                        ELSE IF b = p THEN toolCalls[b] + 1 ELSE toolCalls[b]]
            /\ runs' = [runs EXCEPT ![a] = @ + 1]
            /\ loopStatus' = IF p \in Composites /\ kind(p) = "loop"
                             THEN "RUNNING" ELSE loopStatus
            /\ UNCHANGED <<ex, mainStatus, running, completed, state,
                           retriedOther, max_iterations, times_looped,
                           should_exit, failure, writers, exitAt, runsAtExit,
                           storyAtExit, critiqueAtExit>>

\* The model call of agent a fails with status code c: it is retried after
\* the next delay (with jitter j), or the error is raised.
ModelCallError(a, c, j) ==
    /\ mainStatus = "running"
    /\ running
    /\ st[a] = "running"
    /\ IF Retried(a, c)
       THEN /\ retriedOther' = (retriedOther \/ c \notin {429, 500, 503, 504})
            /\ attempt' = [attempt EXCEPT ![a] = @ + 1]
            /\ delay' = [delay EXCEPT ![a] = NextDelay(attempt[a], j)]
            /\ UNCHANGED <<ex, mainStatus, running, completed, st, failure>>
       ELSE /\ j = 0
            /\ HardFailure(a, "APIError", c)
            /\ UNCHANGED <<attempt, delay, retriedOther>>
    /\ UNCHANGED <<state, toolCalls, max_iterations, times_looped, loopStatus,
                   should_exit, writers, runs, exitAt, runsAtExit,
                   storyAtExit, critiqueAtExit>>

\* The model answers agent a with a call of its function tool f: f is run,
\* and its result goes back to the model in a new model call.
FunctionCall(a, f) ==
    /\ mainStatus = "running"
    /\ running
    /\ st[a] = "running"
    /\ f \in function_tools(a)
    /\ toolCalls[a] < MaxToolCalls
    /\ toolCalls' = [toolCalls EXCEPT ![a] = @ + 1]
    /\ attempt' = [attempt EXCEPT ![a] = 1]
    /\ delay' = [delay EXCEPT ![a] = 0]
    /\ should_exit' = (should_exit \/ tool_escalates(f))
    /\ IF exitAt = 0 /\ f = "exit_loop"
       THEN /\ exitAt' = times_looped + 1
            /\ runsAtExit' = runs
            /\ storyAtExit' = state["current_story"]
            /\ critiqueAtExit' = state["critique"]
       ELSE UNCHANGED <<exitAt, runsAtExit, storyAtExit, critiqueAtExit>>
    /\ UNCHANGED <<ex, mainStatus, running, completed, state, st,
                   retriedOther, max_iterations, times_looped, loopStatus,
                   failure, writers, runs>>

\* The final responses of a model call: a text, or a response without
\* content (NoText), which is stored under no key.
FinalTexts == Texts \cup {NoText}

\* The model answers agent a with its final response t.  A non-empty t is
\* stored under a's output_key; the agent that runs a goes on: a calling
\* agent issues its next model call once every tool call of its turn has
\* returned, a loop returns if it saw escalate and counts an iteration after
\* its last sub-agent.
AgentFinal(a, t) ==
    /\ mainStatus = "running"
    /\ running
    /\ st[a] = "running"
    /\ t \in FinalTexts
    /\ LET p == Parent(a)
           key == output_key(a)
           stored == key # NoKey /\ t # NoText
           inLoop == p \in Composites /\ kind(p) = "loop"
           again == /\ inLoop
                    /\ ~should_exit
                    /\ a = Last(p)
                    /\ times_looped + 1 < loop_max_iterations(max_iterations)
           pending == /\ p \in LlmAgents
                      /\ \E b \in agent_tools(p) \ {a} : st[b] = "running"
       IN
       /\ state' = IF stored THEN [state EXCEPT ![key] = t] ELSE state
       /\ writers' = IF stored THEN [writers EXCEPT ![key] = @ \cup {a}]
                     ELSE writers
       /\ st' = [b \in LlmAgents |->
                    IF again /\ IsSub(p, b) THEN "idle"
                    ELSE IF b = a THEN "done"
                    ELSE IF b = p THEN (IF pending THEN "joining" ELSE "running")
                    ELSE st[b]]
       /\ attempt' = [b \in LlmAgents |->
                    IF b = a THEN 0
                    ELSE IF b = p /\ ~pending THEN 1 ELSE attempt[b]]
       /\ delay' = [delay EXCEPT ![a] = 0]
       /\ times_looped' = IF inLoop /\ ~should_exit /\ a = Last(p)
                          THEN times_looped + 1 ELSE times_looped
       /\ loopStatus' = IF inLoop /\ should_exit THEN "APPROVED"
                        ELSE IF inLoop /\ a = Last(p) /\ ~again THEN "EXHAUSTED"
                        ELSE loopStatus
    /\ UNCHANGED <<ex, mainStatus, running, completed, toolCalls, retriedOther,
                   max_iterations, should_exit, failure, runs, exitAt,
                   runsAtExit, storyAtExit, critiqueAtExit>>

\* run_debug returns: run_agent_and_print prints the response and main goes
\* on to the next example.
RunReturn ==
    /\ mainStatus = "running"
    /\ running
    /\ Finished(Root(ex))
    /\ running' = FALSE
    /\ completed' = completed \cup {ex}
    /\ ex' = ex + 1
    /\ mainStatus' = IF ex = NumExamples THEN "finished" ELSE "running"
    /\ UNCHANGED <<state, st, attempt, delay, retriedOther, toolCalls,
                   max_iterations, times_looped, loopStatus, should_exit,
                   failure, writers, runs, exitAt, runsAtExit,
                   storyAtExit, critiqueAtExit>>

Next ==
    \/ RunStart
    \/ \E a \in LlmAgents : AgentStart(a)
    \/ \E a \in LlmAgents, c \in StatusCodes, j \in 0..jitter :
          ModelCallError(a, c, j)
    \/ \E a \in LlmAgents, f \in {"exit_loop"} : FunctionCall(a, f)
    \/ \E a \in LlmAgents, t \in FinalTexts : AgentFinal(a, t)
    \/ RunReturn

\* main(), as written.
Spec == Init /\ [][Next]_vars

\* The story pipeline built with any max_iterations.
SpecBuilder == InitBuilder /\ [][Next]_vars


(* ------------------------------ claims -------------------------------- *)

RECURSIVE LeavesOf(_)
LeavesOf(n) ==
    IF n \in LlmAgents THEN {n}
    ELSE UNION {LeavesOf(sub_agents(n)[i]) : i \in DOMAIN sub_agents(n)}

\* Some agent of n has been invoked in this run.
HasStarted(n) == \E a \in LeavesOf(n) : runs[a] > 0 \/ st[a] # "idle"

\* n has completed: every agent of it has, and a loop has stopped.
HasCompleted(n) ==
    IF n = "StoryRefinementLoop" THEN loopStatus \in {"APPROVED", "EXHAUSTED"}
    ELSE \A a \in LeavesOf(n) : st[a] = "done"

KeysOf(n) == {output_key(a) : a \in LeavesOf(n)} \ {NoKey}

Present(k) == state[k] # NoText

LoopBody == {"CriticAgent", "RefinerAgent"}
Researchers == {"TechResearcher", "HealthResearcher", "FinanceResearcher"}
ResearchKeys == {"tech_research", "health_research", "finance_research"}

\* C1: in a sequential composite a sub-agent is started only after all the
\* sub-agents listed before it have completed, and then the state holds each
\* of their output keys; in BlogPipeline WriterAgent starts with blog_outline
\* present and EditorAgent with blog_outline and blog_draft present.
C1_SequentialOrder ==
    /\ \A p \in Composites :
          kind(p) = "sequential" =>
             \A j \in DOMAIN sub_agents(p) : \A i \in 1..(j - 1) :
                HasStarted(sub_agents(p)[j]) =>
                   /\ HasCompleted(sub_agents(p)[i])
                   /\ \A k \in KeysOf(sub_agents(p)[i]) : Present(k)
    /\ st["WriterAgent"] # "idle" =>
          /\ st["OutlineAgent"] = "done"
          /\ Present("blog_outline")
    /\ st["EditorAgent"] # "idle" =>
          /\ st["OutlineAgent"] = "done"
          /\ st["WriterAgent"] = "done"
          /\ Present("blog_outline")
          /\ Present("blog_draft")

\* C2: AggregatorAgent is never started while one of the three researchers
\* has not completed, and the three research keys are present when it
\* starts.
C2_ParallelBarrier ==
    st["AggregatorAgent"] # "idle" =>
       /\ \A r \in Researchers : st[r] = "done"
       /\ \A k \in ResearchKeys : Present(k)

\* C3: the loop body is executed at most max_iterations times; a loop that
\* stopped without having seen the exit signal is EXHAUSTED after exactly
\* max_iterations iterations.
C3_LoopBound ==
    /\ \A a \in LoopBody : runs[a] <= max_iterations
    /\ times_looped <= max_iterations
    /\ loopStatus = "EXHAUSTED" =>
          /\ times_looped = max_iterations
          /\ \A a \in LoopBody : runs[a] = max_iterations
    /\ (loopStatus \in {"APPROVED", "EXHAUSTED"} /\ ~should_exit) =>
          loopStatus = "EXHAUSTED"

C3_Witness ==
    /\ loopStatus = "EXHAUSTED"
    /\ max_iterations = MaxK
    /\ runs["RefinerAgent"] = MaxK

\* C4: once exit_loop has been invoked in iteration i, no agent of the loop
\* body is started any more, iteration i + 1 does not begin, and the loop
\* stops APPROVED.
C4_ExitToolStopsLoop ==
    exitAt # 0 =>
       /\ \A a \in LoopBody : runs[a] = runsAtExit[a]
       /\ times_looped < exitAt
       /\ loopStatus # "EXHAUSTED"
       /\ st["RefinerAgent"] = "done" => loopStatus = "APPROVED"

\* C5: with max_iterations = 2, when the Critic answers exactly APPROVED in
\* iteration 1 (and the Refiner calls exit_loop on it), the loop stops after
\* iteration 1: neither Critic nor Refiner runs a second time.
C5_ApprovedFirstIteration ==
    (/\ max_iterations = MainMaxIterations
     /\ exitAt = 1
     /\ critiqueAtExit = APPROVED)
       => /\ \A a \in LoopBody : runs[a] <= 1
          /\ loopStatus # "EXHAUSTED"

\* C6 as stated: a model call is attempted at most 5 times; the delays
\* before its retries are 1, 7, 49, 343 (each 7 times the one before); only
\* failures with status 429, 500, 503 or 504 are retried; a call fails for
\* good only on another status code or on its 5th attempt.
C6_RetryPolicy ==
    /\ ~retriedOther
    /\ \A a \in LlmAgents :
          /\ attempt[a] <= 5
          /\ attempt[a] >= 2 => delay[a] = <<1, 7, 49, 343>>[attempt[a] - 1]
    /\ failure.error = "APIError" =>
          \/ failure.code \notin {429, 500, 503, 504}
          \/ failure.attempt = 5

\* C6 amended: a model call is attempted at most 5 times; only failures with
\* status 429, 500, 503 or 504 are retried; a call fails for good only on
\* another status code or on its 5th attempt; the delays before the four
\* retries are 1, 7 and 49 seconds plus up to one second of jitter, and 60
\* seconds (the cap) instead of 343.
C6_RetryPolicyCapped ==
    /\ ~retriedOther
    /\ \A a \in LlmAgents :
          /\ attempt[a] <= 5
          /\ attempt[a] <= 1 => delay[a] = 0
          /\ attempt[a] = 2 => delay[a] \in 1..2
          /\ attempt[a] = 3 => delay[a] \in 7..8
          /\ attempt[a] = 4 => delay[a] \in 49..50
          /\ attempt[a] = 5 => delay[a] = 60
    /\ failure.error = "APIError" =>
          \/ failure.code \notin {429, 500, 503, 504}
          \/ failure.attempt = 5

C6_Witness ==
    \E a \in LlmAgents :
       /\ st[a] = "running"
       /\ attempt[a] = 5
       /\ delay[a] = 60

\* C7: after a hard failure of an agent the run has not returned a response,
\* the exception has left main, and nothing runs any more: no agent is
\* running or started later, and no further example is run.
C7_FailureAborts ==
    failure # NoFailure =>
       /\ mainStatus = "error"
       /\ ~running
       /\ \A e \in ex..NumExamples : e \notin completed
       /\ \A a \in LlmAgents : st[a] \notin {"running", "waiting", "joining"}
       /\ ~ENABLED Next

C7_Witness ==
    /\ failure.agent = "HealthResearcher"
    /\ failure.error = "APIError"
    /\ failure.attempt = 5
    /\ st["TechResearcher"] = "cancelled"
    /\ st["AggregatorAgent"] = "idle"

\* C8 as stated: every key is written by at most one agent.
C8_OneWriterPerKey ==
    \A k \in Keys : Cardinality(writers[k]) <= 1

\* C8 amended: every key other than current_story is written by at most one
\* agent; current_story is written by InitialWriterAgent and RefinerAgent
\* only, which never run at the same time.
C8_OneWriterExceptStory ==
    /\ \A k \in Keys \ {"current_story"} : Cardinality(writers[k]) <= 1
    /\ writers["current_story"] \subseteq {"InitialWriterAgent", "RefinerAgent"}
    /\ ~(st["InitialWriterAgent"] = "running" /\ st["RefinerAgent"] = "running")

C8_Witness ==
    /\ writers["current_story"] = {"InitialWriterAgent", "RefinerAgent"}
    /\ \A k \in ResearchKeys : writers[k] = {}

\* C9: when the loop has stopped after exit_loop was called on a critique of
\* APPROVED, current_story still holds the story the Critic approved.
C9_ApprovedStoryKept ==
    (/\ loopStatus \in {"APPROVED", "EXHAUSTED"}
     /\ exitAt # 0
     /\ critiqueAtExit = APPROVED)
       => state["current_story"] = storyAtExit

\* C10: no agent is ever invoked while a key of its instruction template is
\* missing from the state: every agent that was invoked found each of its
\* keys written by an agent that had completed.
C10_NoMissingKey ==
    /\ failure.error # "KeyError"
    /\ \A a \in LlmAgents :
          st[a] = "failed" => \A k \in placeholders(a) : writers[k] # {}

=============================================================================
